---- MODULE Spec2Model ----
(***************************************************************************)
(* The rule async-no-await (src/src/rules/async-no-await.ts) as a state    *)
(* machine.  The rule keeps one linked chain of ScopeInfo records          *)
(* (scopeInfo / upper) and emits diagnostics through context.report.  The  *)
(* host (ESLint) walks the syntax tree and calls the listeners of the      *)
(* table returned by create() on entering and leaving each node.           *)
(*                                                                         *)
(* scopeInfo  the chain of ScopeInfo records as a sequence: the last       *)
(*            element is the record `scopeInfo` points to, the one before  *)
(*            it is its `upper`; <<>> is null.                             *)
(* reports    the diagnostics given to context.report, in order.  A        *)
(*            diagnostic is anchored at a place of its node: `loc` names   *)
(*            which (the callee of a call, the head of a function).        *)
(* path       the traversal's open nodes, outermost first: the ancestors   *)
(*            of the position the walk is at, without the nodes no         *)
(*            exit listener is registered for (blocks, expression          *)
(*            statements, calls, ...) other than plain for-of statements.  *)
(*            `direct` says that a node is an immediate child of the path  *)
(*            node before it, with no such node in between.  A function    *)
(*            node                                                         *)
(*            carries `own`, the calls the walk has met that have it       *)
(*            as nearest open function-or-boundary node and that are       *)
(*            thenable calls through an identifier: this is read off the   *)
(*            tree alone, never off scopeInfo.  `nested` counts such calls *)
(*            met in functions nested in it that the walk has left.        *)
(* visited    the call expression the last step visited, NoNode if the     *)
(*            last step was not the visit of a call.  A call has no exit   *)
(*            listener: what the walk meets in its arguments are further   *)
(*            nodes at the same place of the path.                         *)
(* queried    the last step asked the type checker for the type of a node  *)
(*            (checker.getTypeAtLocation in isThenableType).               *)
(* resumed    the walk has left a boundary node (await, return, for-await) *)
(*            and has since met nothing but calls: it stands right after   *)
(*            the boundary, in the node that encloses it.                  *)
(* nextId     identity of the next function or call node (the nodes a      *)
(*            diagnostic can be anchored at).                              *)
(* line       the source line the walk has reached.                        *)
(* done       the walk has left the Program node.                          *)
(* strays     exit listeners the host has called with no scope active      *)
(*            (only a host that breaks the enter/exit pairing does so).    *)
(***************************************************************************)
EXTENDS Integers, Sequences, FiniteSets, TLC

VARIABLES
  scopeInfo, reports, path, visited, queried, resumed, nextId, line, done, strays

vars ==
  <<scopeInfo, reports, path, visited, queried, resumed, nextId, line, done,
    strays>>

\* ------------------------------------------------------------------ bounds
MaxDepth == 2
MaxNodes == 3
MaxStrays == 1

\* ------------------------------------------------------------------ inputs
FunctionTypes ==
  {"FunctionDeclaration", "FunctionExpression", "ArrowFunctionExpression"}

CalleeTypes == {"Identifier", "MemberExpression"}

\* What the type services answer for a call expression: its type is thenable,
\* its type is something else, or the node has no TypeScript node at all.
TsAnswers == {"thenable", "other", "undefined"}

Names == {"g", "h"}

\* Statements, and the nodes whose children are all expressions: between one
\* of the latter and a statement below it there is always a function node.
StatementTypes == {"FunctionDeclaration", "ReturnStatement", "ForOfStatement"}

ExpressionParents == {"AwaitExpression", "ReturnStatement"}

\* The source lines a callee can start on.
Lines == {1, 2}

NoNode ==
  [type |-> "Program", async |-> FALSE, await |-> FALSE, id |-> 0,
   calleeType |-> "", tsType |-> "", name |-> "", line |-> 0, own |-> <<>>,
   nested |-> 0, direct |-> FALSE]

Node(type, async, await, id) ==
  [NoNode EXCEPT !.type = type, !.async = async, !.await = await, !.id = id]

CallNode(id, calleeType, tsType, name, l) ==
  [NoNode EXCEPT !.type = "CallExpression", !.id = id, !.calleeType = calleeType,
                 !.tsType = tsType, !.name = name, !.line = l]

\* ------------------------------------------------------------ the rule
Top(s) == s[Len(s)]

Front(s) == SubSeq(s, 1, Len(s) - 1)

ScopeRecord(hasAsyncCheck) ==
  [hasAsyncCheck |-> hasAsyncCheck, noAwaitCalls |-> <<>>]

\* `${callee.name}(line: ${callee.loc.start.line})`
CallDescriptor(name, l) == name \o "(line: " \o ToString(l) \o ")"

\* The rule's state as the handlers see it, and whether the handler has asked
\* the type checker for a type; no handler has when it is called.
Rule(si, rep) == [scopeInfo |-> si, reports |-> rep, queried |-> FALSE]

\* enterFunction with a record that is never checkable for an arrow function.
enterFunction_ArrowUnchecked(st, node) ==
  [st EXCEPT !.scopeInfo =
     Append(@, ScopeRecord(node.async
                             /\ node.type # "ArrowFunctionExpression"))]

\* enterFunction with a record that is also checkable when `upper` is.
enterFunction_InheritsCheck(st, node) ==
  [st EXCEPT !.scopeInfo =
     Append(@, ScopeRecord(node.async \/ (@ # <<>> /\ Top(@).hasAsyncCheck)))]

\* enterFunction with `hasAsyncCheck: true` in place of `node.async`.
enterFunction_AlwaysChecks(st, node) ==
  [st EXCEPT !.scopeInfo = Append(@, ScopeRecord(TRUE))]

enterFunction(st, node) ==
  [st EXCEPT !.scopeInfo = Append(@, ScopeRecord(node.async))]

\* exitFunction reporting only when more than one call is listed.
exitFunction_MoreThanOne(st, node) ==
  IF st.scopeInfo = <<>>
  THEN st
  ELSE LET top == Top(st.scopeInfo) IN
       [st EXCEPT
          !.scopeInfo = Front(st.scopeInfo),
          !.reports =
          IF node.async /\ Len(top.noAwaitCalls) > 1
          THEN Append(st.reports,
                      [messageId |-> "noAwaitBeforeReturnPromise",
                       node |-> node.id, loc |-> "functionHead",
                       noAwaitCalls |-> top.noAwaitCalls])
          ELSE st.reports]

\* exitFunction putting the summary at the head of the diagnostics.
exitFunction_SummaryFirst(st, node) ==
  IF st.scopeInfo = <<>>
  THEN st
  ELSE [st EXCEPT
          !.scopeInfo = Front(st.scopeInfo),
          !.reports =
          IF node.async /\ Len(Top(st.scopeInfo).noAwaitCalls) > 0
          THEN <<[messageId |-> "noAwaitBeforeReturnPromise",
                  node |-> node.id, loc |-> "functionHead",
                  noAwaitCalls |-> Top(st.scopeInfo).noAwaitCalls]>>
                 \o st.reports
          ELSE st.reports]

\* exitFunction handing the popped record's calls up to `upper`.
exitFunction_HandsUp(st, node) ==
  IF st.scopeInfo = <<>>
  THEN st
  ELSE LET top == Top(st.scopeInfo)
           upper == Front(st.scopeInfo) IN
       [st EXCEPT
          !.scopeInfo =
            IF upper = <<>> THEN upper
            ELSE [upper EXCEPT ![Len(upper)].noAwaitCalls = @ \o top.noAwaitCalls],
          !.reports =
          IF node.async /\ Len(top.noAwaitCalls) > 0
          THEN Append(st.reports,
                      [messageId |-> "noAwaitBeforeReturnPromise",
                       node |-> node.id, loc |-> "functionHead",
                       noAwaitCalls |-> top.noAwaitCalls])
          ELSE st.reports]

\* exitFunction testing `scopeInfo?.noAwaitCalls.length !== 0` with no guard
\* before it.
exitFunction_ReportsUnguarded(st, node) ==
  LET calls == IF st.scopeInfo = <<>> THEN <<>> ELSE Top(st.scopeInfo).noAwaitCalls IN
  [st EXCEPT
   !.scopeInfo = IF st.scopeInfo = <<>> THEN <<>> ELSE Front(st.scopeInfo),
   !.reports =
     IF node.async /\ (st.scopeInfo = <<>> \/ Len(calls) > 0)
     THEN Append(st.reports,
                 [messageId |-> "noAwaitBeforeReturnPromise",
                  node |-> node.id, loc |-> "functionHead",
                  noAwaitCalls |-> calls])
     ELSE st.reports]

exitFunction(st, node) ==
  IF st.scopeInfo = <<>>
  THEN st
  ELSE LET top == Top(st.scopeInfo) IN
       [st EXCEPT
          !.scopeInfo = Front(st.scopeInfo),
          !.reports =
          IF node.async /\ Len(top.noAwaitCalls) > 0
          THEN Append(st.reports,
                      [messageId |-> "noAwaitBeforeReturnPromise",
                       node |-> node.id, loc |-> "functionHead",
                       noAwaitCalls |-> top.noAwaitCalls])
          ELSE st.reports]

\* enterShortCircuitExpression keeping the enclosing record's hasAsyncCheck.
enterShortCircuitExpression_Inherits(st, node) ==
  [st EXCEPT !.scopeInfo =
     Append(@, ScopeRecord(IF @ = <<>> THEN FALSE ELSE Top(@).hasAsyncCheck))]

\* enterShortCircuitExpression with `hasAsyncCheck: true`.
enterShortCircuitExpression_Checkable(st, node) ==
  [st EXCEPT !.scopeInfo = Append(@, ScopeRecord(TRUE))]

enterShortCircuitExpression(st, node) ==
  [st EXCEPT !.scopeInfo = Append(@, ScopeRecord(FALSE))]

\* exitShortCircuitExpression leaving `upper` not checkable.
exitShortCircuitExpression_KeepsSuppressing(st, node) ==
  IF st.scopeInfo = <<>>
  THEN st
  ELSE LET upper == Front(st.scopeInfo) IN
       [st EXCEPT !.scopeInfo =
          IF upper = <<>> THEN upper
          ELSE [upper EXCEPT ![Len(upper)].hasAsyncCheck = FALSE]]

exitShortCircuitExpression(st, node) ==
  IF st.scopeInfo = <<>>
  THEN st
  ELSE [st EXCEPT !.scopeInfo = Front(@)]

isThenableType(node) == node.tsType = "thenable"

\* addNoAwaitCalls pushing the descriptor onto `upper` as well.
addNoAwaitCalls_AlsoUpper(st, node) ==
  IF st.scopeInfo = <<>>
  THEN st
  ELSE [st EXCEPT
          !.scopeInfo =
            [i \in 1..Len(st.scopeInfo) |->
               IF i >= Len(st.scopeInfo) - 1
               THEN [st.scopeInfo[i] EXCEPT !.noAwaitCalls =
                       Append(@, CallDescriptor(node.name, node.line))]
               ELSE st.scopeInfo[i]],
          !.reports =
          Append(st.reports,
                 [messageId |-> "asyncCallNoAwait", node |-> node.id,
                  loc |-> "callee", noAwaitCalls |-> <<>>])]

\* addNoAwaitCalls with `unshift` in place of `push`.
addNoAwaitCalls_Unshift(st, node) ==
  IF st.scopeInfo = <<>>
  THEN st
  ELSE [st EXCEPT
          !.scopeInfo =
            [st.scopeInfo EXCEPT ![Len(st.scopeInfo)].noAwaitCalls =
               <<CallDescriptor(node.name, node.line)>> \o @],
          !.reports =
          Append(st.reports,
                 [messageId |-> "asyncCallNoAwait", node |-> node.id,
                  loc |-> "callee", noAwaitCalls |-> <<>>])]

addNoAwaitCalls(st, node) ==
  IF st.scopeInfo = <<>>
  THEN st
  ELSE [st EXCEPT
          !.scopeInfo =
            [st.scopeInfo EXCEPT ![Len(st.scopeInfo)].noAwaitCalls =
               Append(@, CallDescriptor(node.name, node.line))],
          !.reports =
          Append(st.reports,
                 [messageId |-> "asyncCallNoAwait", node |-> node.id,
                  loc |-> "callee", noAwaitCalls |-> <<>>])]

\* CallExpression asking the type checker before its early return.
CallExpression_QueriesFirst(st, node) ==
  IF node.tsType = "undefined"
  THEN st
  ELSE LET asked == [st EXCEPT !.queried = TRUE] IN
       IF st.scopeInfo = <<>> \/ ~Top(st.scopeInfo).hasAsyncCheck
       THEN asked
       ELSE IF isThenableType(node)
            THEN IF node.calleeType = "Identifier"
                 THEN addNoAwaitCalls(asked, node)
                 ELSE asked
            ELSE asked

\* CallExpression without the test of hasAsyncCheck in its early return.
CallExpression_NoShortCircuit(st, node) ==
  IF st.scopeInfo = <<>>
  THEN st
  ELSE IF node.tsType = "undefined"
       THEN st
       ELSE LET asked == [st EXCEPT !.queried = TRUE] IN
            IF isThenableType(node)
            THEN IF node.calleeType = "Identifier"
                 THEN addNoAwaitCalls(asked, node)
                 ELSE asked
            ELSE asked

\* CallExpression without the test of the callee's type.
CallExpression_AnyCallee(st, node) ==
  IF st.scopeInfo = <<>> \/ ~Top(st.scopeInfo).hasAsyncCheck
  THEN st
  ELSE IF node.tsType = "undefined"
       THEN st
       ELSE LET asked == [st EXCEPT !.queried = TRUE] IN
            IF isThenableType(node)
            THEN addNoAwaitCalls(asked, node)
            ELSE asked

CallExpression(st, node) ==
  IF st.scopeInfo = <<>> \/ ~Top(st.scopeInfo).hasAsyncCheck
  THEN st
  ELSE IF node.tsType = "undefined"
       THEN st
       ELSE LET asked == [st EXCEPT !.queried = TRUE] IN
            IF isThenableType(node)
            THEN IF node.calleeType = "Identifier"
                 THEN addNoAwaitCalls(asked, node)
                 ELSE asked
            ELSE asked

\* "ArrowFunctionExpression[async = true] >  AwaitExpression"
ArrowAwaitSelector(node, parent) ==
  /\ node.type = "AwaitExpression"
  /\ node.direct
  /\ parent.type = "ArrowFunctionExpression"
  /\ parent.async

\* The selector `ForOfStatement` without the attribute test [await = true].
ForAwaitSelector_AnyForOf(node) == node.type = "ForOfStatement"

\* "ForOfStatement[await = true]"
ForAwaitSelector(node) == node.type = "ForOfStatement" /\ node.await

\* The enter listeners of a table that has no listener for the selector
\* "ArrowFunctionExpression[async = true] >  AwaitExpression": an await
\* expression runs enterShortCircuitExpression once, wherever it stands.
OnEnter_GenericAwaitOnly(st, node, parent) ==
  CASE node.type \in FunctionTypes -> enterFunction(st, node)
    [] node.type = "AwaitExpression" -> enterShortCircuitExpression(st, node)
    [] node.type = "ReturnStatement" -> enterShortCircuitExpression(st, node)
    [] ForAwaitSelector(node) -> enterShortCircuitExpression(st, node)
    [] node.type = "CallExpression" -> CallExpression(st, node)
    [] OTHER -> st

\* The listener table without the ReturnStatement listener.
OnEnter_NoReturnListener(st, node, parent) ==
  CASE node.type \in FunctionTypes -> enterFunction(st, node)
    [] node.type = "AwaitExpression" ->
         LET s1 == enterShortCircuitExpression(st, node) IN
         IF ArrowAwaitSelector(node, parent)
         THEN enterShortCircuitExpression(s1, node)
         ELSE s1
    [] ForAwaitSelector(node) -> enterShortCircuitExpression(st, node)
    [] node.type = "CallExpression" -> CallExpression(st, node)
    [] OTHER -> st

\* The listener table: every listener whose selector matches the node runs.
OnEnter(st, node, parent) ==
  CASE node.type \in FunctionTypes -> enterFunction(st, node)
    [] node.type = "AwaitExpression" ->
         LET s1 == enterShortCircuitExpression(st, node) IN
         IF ArrowAwaitSelector(node, parent)
         THEN enterShortCircuitExpression(s1, node)
         ELSE s1
    [] node.type = "ReturnStatement" -> enterShortCircuitExpression(st, node)
    [] ForAwaitSelector(node) -> enterShortCircuitExpression(st, node)
    [] node.type = "CallExpression" -> CallExpression(st, node)
    [] OTHER -> st

\* The exit listeners of the table without the arrow > await selector.
OnExit_GenericAwaitOnly(st, node, parent) ==
  CASE node.type \in FunctionTypes -> exitFunction(st, node)
    [] node.type = "AwaitExpression" -> exitShortCircuitExpression(st, node)
    [] node.type = "ReturnStatement" -> exitShortCircuitExpression(st, node)
    [] ForAwaitSelector(node) -> exitShortCircuitExpression(st, node)
    [] OTHER -> st

\* The listener table without the exit listener of the arrow > await selector.
OnExit_NoArrowAwaitExit(st, node, parent) ==
  CASE node.type \in FunctionTypes -> exitFunction(st, node)
    [] node.type = "AwaitExpression" -> exitShortCircuitExpression(st, node)
    [] node.type = "ReturnStatement" -> exitShortCircuitExpression(st, node)
    [] ForAwaitSelector(node) -> exitShortCircuitExpression(st, node)
    [] OTHER -> st

OnExit(st, node, parent) ==
  CASE node.type \in FunctionTypes -> exitFunction(st, node)
    [] node.type = "AwaitExpression" ->
         LET s1 == exitShortCircuitExpression(st, node) IN
         IF ArrowAwaitSelector(node, parent)
         THEN exitShortCircuitExpression(s1, node)
         ELSE s1
    [] node.type = "ReturnStatement" -> exitShortCircuitExpression(st, node)
    [] ForAwaitSelector(node) -> exitShortCircuitExpression(st, node)
    [] OTHER -> st

\* ------------------------------------------------------- the traversal
Parent == IF path = <<>> THEN NoNode ELSE Top(path)

IsBoundary(n) ==
  \/ n.type \in {"AwaitExpression", "ReturnStatement"}
  \/ (n.type = "ForOfStatement" /\ n.await)

IsScoped(n) == n.type \in FunctionTypes \/ IsBoundary(n)

\* Index in p of the nearest open function or boundary node, 0 if none.
RECURSIVE Nearest(_)
Nearest(p) ==
  IF p = <<>> THEN 0
  ELSE IF IsScoped(Top(p)) THEN Len(p) ELSE Nearest(Front(p))

\* Index in p of the nearest open function node, 0 if none.
RECURSIVE NearestFn(_)
NearestFn(p) ==
  IF p = <<>> THEN 0
  ELSE IF Top(p).type \in FunctionTypes THEN Len(p) ELSE NearestFn(Front(p))

\* The call is a thenable call through an identifier (read off the node).
IsThenableIdentCall(c) ==
  c.calleeType = "Identifier" /\ c.tsType = "thenable"

\* The call has an async function as nearest open function-or-boundary node.
InAsyncFunction(p) ==
  LET k == Nearest(p) IN
  k > 0 /\ p[k].type \in FunctionTypes /\ p[k].async

\* path with the call noted in `own` of the function it belongs to.
Noted(p, c) ==
  IF IsThenableIdentCall(c) /\ InAsyncFunction(p)
  THEN [p EXCEPT ![Nearest(p)].own =
          Append(@, [id |-> c.id, name |-> c.name, line |-> c.line])]
  ELSE p

\* The path once node, its last element, is left.
Left(p) ==
  LET node == Top(p)
      rest == Front(p)
      k == NearestFn(rest) IN
  IF node.type \in FunctionTypes /\ k > 0
  THEN [rest EXCEPT ![k].nested = @ + Len(node.own) + node.nested]
  ELSE rest

\* The node can stand at the place the walk is at.
Grammatical(node) ==
  /\ node.type \in StatementTypes => Parent.type \notin ExpressionParents
  /\ node.type = "ReturnStatement" => NearestFn(path) > 0

Enter(node) ==
  /\ ~done
  /\ Len(path) < MaxDepth
  /\ Grammatical(node)
  /\ LET st == OnEnter(Rule(scopeInfo, reports), node, Parent) IN
       /\ scopeInfo' = st.scopeInfo
       /\ reports' = st.reports
       /\ queried' = st.queried
  /\ path' = Append(path, node)
  /\ visited' = NoNode
  /\ resumed' = FALSE
  /\ UNCHANGED <<done, strays>>

Exit ==
  /\ LET node == Top(path)
         parent == IF Len(path) = 1 THEN NoNode ELSE path[Len(path) - 1]
         st == OnExit(Rule(scopeInfo, reports), node, parent) IN
       /\ scopeInfo' = st.scopeInfo
       /\ reports' = st.reports
       /\ queried' = st.queried
  /\ path' = Left(path)
  /\ visited' = NoNode
  /\ resumed' = IsBoundary(Top(path))
  /\ UNCHANGED <<nextId, line, done, strays>>

EnterFunction ==
  /\ nextId <= MaxNodes
  /\ \E t \in FunctionTypes, a \in BOOLEAN : Enter(Node(t, a, FALSE, nextId))
  /\ nextId' = nextId + 1
  /\ line' = line

ExitFunction ==
  /\ ~done
  /\ path # <<>>
  /\ Top(path).type \in FunctionTypes
  /\ Exit

EnterAwait ==
  /\ \E d \in BOOLEAN :
       /\ d => (Parent.type = "ArrowFunctionExpression" /\ Parent.async)
       /\ Enter([Node("AwaitExpression", FALSE, FALSE, 0) EXCEPT !.direct = d])
  /\ UNCHANGED <<nextId, line>>

ExitAwait ==
  /\ ~done
  /\ path # <<>>
  /\ Top(path).type = "AwaitExpression"
  /\ Exit

EnterReturn ==
  /\ Enter(Node("ReturnStatement", FALSE, FALSE, 0))
  /\ UNCHANGED <<nextId, line>>

ExitReturn ==
  /\ ~done
  /\ path # <<>>
  /\ Top(path).type = "ReturnStatement"
  /\ Exit

EnterForOf ==
  /\ \E w \in BOOLEAN : Enter(Node("ForOfStatement", FALSE, w, 0))
  /\ UNCHANGED <<nextId, line>>

ExitForOf ==
  /\ ~done
  /\ path # <<>>
  /\ Top(path).type = "ForOfStatement"
  /\ Exit

VisitCall ==
  /\ ~done
  /\ nextId <= MaxNodes
  /\ \E ct \in CalleeTypes, ts \in TsAnswers, n \in Names, l \in Lines :
       /\ l >= line
       /\ LET node == CallNode(nextId, ct, ts, n, l)
              st == OnEnter(Rule(scopeInfo, reports), node, Parent) IN
            /\ scopeInfo' = st.scopeInfo
            /\ reports' = st.reports
            /\ queried' = st.queried
            /\ path' = Noted(path, node)
            /\ visited' = node
       /\ line' = l
  /\ nextId' = nextId + 1
  /\ UNCHANGED <<resumed, done, strays>>

Finish ==
  /\ ~done
  /\ path = <<>>
  /\ done' = TRUE
  /\ visited' = NoNode
  /\ queried' = FALSE
  /\ resumed' = FALSE
  /\ UNCHANGED <<scopeInfo, reports, path, nextId, line, strays>>

\* An exit listener called while no scope is active.
StrayExit(node) ==
  /\ LET st == OnExit(Rule(scopeInfo, reports), node, Parent) IN
       /\ scopeInfo' = st.scopeInfo
       /\ reports' = st.reports
       /\ queried' = st.queried
  /\ strays' = strays + 1
  /\ visited' = NoNode
  /\ resumed' = FALSE
  /\ UNCHANGED <<path, nextId, line, done>>

StrayExitFunction ==
  /\ ~done
  /\ scopeInfo = <<>>
  /\ strays < MaxStrays
  /\ \E t \in FunctionTypes, a \in BOOLEAN : StrayExit(Node(t, a, FALSE, 0))

StrayExitShortCircuitExpression ==
  /\ ~done
  /\ scopeInfo = <<>>
  /\ strays < MaxStrays
  /\ \E t \in {"AwaitExpression", "ReturnStatement", "ForOfStatement"} :
       StrayExit(Node(t, FALSE, TRUE, 0))

\* create(): a fresh rule instance at the top of a file.
Init ==
  /\ scopeInfo = <<>>
  /\ reports = <<>>
  /\ path = <<>>
  /\ visited = NoNode
  /\ queried = FALSE
  /\ resumed = FALSE
  /\ nextId = 1
  /\ line = 1
  /\ done = FALSE
  /\ strays = 0

Next ==
  \/ EnterFunction
  \/ ExitFunction
  \/ EnterAwait
  \/ ExitAwait
  \/ EnterReturn
  \/ ExitReturn
  \/ EnterForOf
  \/ ExitForOf
  \/ VisitCall
  \/ Finish

Spec == Init /\ [][Next]_vars

\* The same walk under a host that may call an exit listener out of turn.
NextStray ==
  \/ Next
  \/ StrayExitFunction
  \/ StrayExitShortCircuitExpression

SpecStray == Init /\ [][NextStray]_vars

\* ================================================================ claims
\* What the claims speak of, read off the nodes of the walk.

\* The step visits a call expression: the call is visited'.
CallVisited == visited' # NoNode

\* The step leaves a function node: the function is the last node of path.
FunctionLeft ==
  Len(path') = Len(path) - 1 /\ Top(path).type \in FunctionTypes

\* The calls as a summary lists them: name(line: N).
Rendered(calls) ==
  [i \in 1..Len(calls) |->
     calls[i].name \o "(line: " \o ToString(calls[i].line) \o ")"]

AsyncCallNoAwait(c) ==
  [messageId |-> "asyncCallNoAwait", node |-> c.id, loc |-> "callee",
   noAwaitCalls |-> <<>>]

NoAwaitBeforeReturnPromise(f) ==
  [messageId |-> "noAwaitBeforeReturnPromise", node |-> f.id,
   loc |-> "functionHead", noAwaitCalls |-> Rendered(f.own)]

\* The type of the nearest open function-or-boundary node, "" if none.
NearestType(p) == IF Nearest(p) = 0 THEN "" ELSE p[Nearest(p)].type

\* ---------------------------------------------------------------- C1
C1_Once ==
  \A i, j \in 1..Len(reports) :
    (i # j /\ reports[i].messageId = reports[j].messageId)
      => reports[i].node # reports[j].node

C1_Step ==
  /\ (CallVisited /\ IsThenableIdentCall(visited') /\ InAsyncFunction(path))
       => reports' = Append(reports, AsyncCallNoAwait(visited'))
  /\ (FunctionLeft /\ Top(path).async /\ Top(path).own # <<>>)
       => reports' = Append(reports, NoAwaitBeforeReturnPromise(Top(path)))

\* C1: a thenable call through an identifier whose nearest open function or
\* boundary node is an async function F gets exactly one asyncCallNoAwait
\* diagnostic, emitted when it is visited; leaving F with at least one such
\* call emits exactly one noAwaitBeforeReturnPromise for F, whose payload is
\* those calls as name(line: N) in the order visited; and no node ever gets a
\* second diagnostic of the same kind.
C1_ViolationsReported == []C1_Once /\ [][C1_Step]_vars

\* An async function has been left with two violating calls of its own,
\* listed in the order visited.
C1_Witness ==
  /\ path = <<>>
  /\ Len(reports) = 3
  /\ reports[1].messageId = "asyncCallNoAwait" /\ reports[1].node = 2
  /\ reports[2].messageId = "asyncCallNoAwait" /\ reports[2].node = 3
  /\ reports[3].messageId = "noAwaitBeforeReturnPromise"
  /\ reports[3].node = 1
  /\ reports[3].noAwaitCalls = <<"h(line: 1)", "g(line: 2)">>

\* ---------------------------------------------------------------- C2
C2_Step ==
  (FunctionLeft /\ (Top(path).nested > 0 \/ NearestFn(Front(path)) > 0))
    => /\ reports' = IF Top(path).async /\ Top(path).own # <<>>
                     THEN Append(reports, NoAwaitBeforeReturnPromise(Top(path)))
                     ELSE reports
       /\ scopeInfo' = Front(scopeInfo)

\* C2: leaving a function that is nested in another function, or that has had
\* violating calls in functions nested in it, emits a summary listing exactly
\* its own calls (none of a nested function's), emits nothing when it has no
\* violating call of its own, and leaves the records of the enclosing
\* functions as they were.
C2_NestedAttribution == [][C2_Step]_vars

\* A nested async function has been left with a violating call and has
\* reported it; the outer async function, still open, has none noted and its
\* record holds none.
C2_Witness ==
  /\ Len(path) = 1
  /\ path[1].type \in FunctionTypes /\ path[1].async
  /\ path[1].own = <<>> /\ path[1].nested = 1
  /\ Len(scopeInfo) = 1 /\ scopeInfo[1].noAwaitCalls = <<>>
  /\ Len(reports) = 2
  /\ reports[1].messageId = "asyncCallNoAwait" /\ reports[1].node = 3
  /\ reports[2].messageId = "noAwaitBeforeReturnPromise"
  /\ reports[2].node = 2

\* ---------------------------------------------------------------- C3
C3_Step ==
  /\ (CallVisited /\ NearestFn(path) > 0 /\ ~path[NearestFn(path)].async)
       => reports' = reports /\ scopeInfo' = scopeInfo
  /\ (FunctionLeft /\ ~Top(path).async) => reports' = reports

\* C3: a call whose nearest open function is not async emits nothing and
\* records nothing, whatever its type and callee; leaving a function that is
\* not async emits nothing.
C3_NonAsyncSilent == [][C3_Step]_vars

\* A thenable call through an identifier sits directly in a non-async
\* function nested in an async one, and nothing has been reported.
C3_Witness ==
  /\ Len(path) = 2
  /\ path[1].type \in FunctionTypes /\ path[1].async
  /\ path[2].type \in FunctionTypes /\ ~path[2].async
  /\ IsThenableIdentCall(visited)
  /\ reports = <<>>

\* ---------------------------------------------------------------- C4
C4_Step ==
  (CallVisited /\ NearestType(path) = "AwaitExpression")
    => reports' = reports /\ scopeInfo' = scopeInfo

\* C4: a call whose nearest open function-or-boundary node is an await
\* expression emits nothing and adds nothing to any record.
C4_AwaitedSilent == [][C4_Step]_vars

\* async function f() { await g(); } with g() just visited: no diagnostic, and
\* nothing noted for f.
C4_Witness ==
  /\ Len(path) = 2
  /\ path[1].type = "FunctionDeclaration" /\ path[1].async
  /\ path[2].type = "AwaitExpression"
  /\ IsThenableIdentCall(visited)
  /\ reports = <<>>
  /\ \A i \in 1..Len(scopeInfo) : scopeInfo[i].noAwaitCalls = <<>>

\* ---------------------------------------------------------------- C5
C5_Step ==
  /\ (CallVisited /\ NearestType(path) = "ReturnStatement")
       => reports' = reports /\ scopeInfo' = scopeInfo
  /\ (FunctionLeft /\ Top(path).own = <<>>) => reports' = reports

\* C5: a call whose nearest open function-or-boundary node is a return
\* statement emits nothing and records nothing, and leaving a function none of
\* whose thenable identifier calls lies outside such boundaries emits no
\* summary.
C5_ReturnedSilent == [][C5_Step]_vars

\* async function f() { return g(); } with g() just visited: no diagnostic.
C5_Witness ==
  /\ Len(path) = 2
  /\ path[1].type = "FunctionDeclaration" /\ path[1].async
  /\ path[2].type = "ReturnStatement"
  /\ IsThenableIdentCall(visited)
  /\ reports = <<>>
  /\ \A i \in 1..Len(scopeInfo) : scopeInfo[i].noAwaitCalls = <<>>

\* ---------------------------------------------------------------- C6
\* Some boundary node is open.
InBoundary(p) == \E k \in 1..Len(p) : IsBoundary(p[k])

\* The step enters a node of the given kind: it is the last node of path'.
Entered(kind(_)) == Len(path') = Len(path) + 1 /\ kind(Top(path'))

IsFunction(n) == n.type \in FunctionTypes

\* C6 as claimed: every record pushed while a boundary is open is
\* non-checkable, and no call inside the boundary's subtree is classified.
C6_AsClaimed ==
  [][/\ (Len(scopeInfo') > Len(scopeInfo) /\ InBoundary(path))
          => ~Top(scopeInfo').hasAsyncCheck
     /\ (CallVisited /\ InBoundary(path)) => reports' = reports]_vars

C6_Step ==
  /\ Entered(IsBoundary)
       => /\ Len(scopeInfo') > Len(scopeInfo)
          /\ SubSeq(scopeInfo', 1, Len(scopeInfo)) = scopeInfo
          /\ \A j \in (Len(scopeInfo) + 1)..Len(scopeInfo') :
               scopeInfo'[j] = ScopeRecord(FALSE)
  /\ (CallVisited /\ Nearest(path) > 0 /\ IsBoundary(path[Nearest(path)]))
       => reports' = reports /\ scopeInfo' = scopeInfo
  /\ (Entered(IsFunction) /\ InBoundary(path))
       => Top(scopeInfo').hasAsyncCheck = Top(path').async

\* C6 (amended): every record pushed for a boundary node itself is
\* non-checkable and empty, so a call whose nearest open function-or-boundary
\* node is a boundary is never classified, whatever the functions around it;
\* a function node opened inside a boundary pushes its own record, checkable
\* exactly when that function is async.
C6_BoundaryRecords == [][C6_Step]_vars

\* Inside an open boundary an async function has been entered and a thenable
\* identifier call directly in it has been classified.
C6_Witness ==
  /\ Len(path) = 2
  /\ IsBoundary(path[1])
  /\ path[2].type \in FunctionTypes /\ path[2].async
  /\ visited # NoNode
  /\ reports = <<AsyncCallNoAwait(visited)>>
  /\ Top(scopeInfo).hasAsyncCheck

\* ---------------------------------------------------------------- C7
C7_Step ==
  (CallVisited /\ visited'.calleeType # "Identifier")
    => reports' = reports /\ scopeInfo' = scopeInfo

\* C7: a call whose callee is not an identifier emits nothing and leaves every
\* record as it was, in every state.
C7_NonIdentifierSilent == [][C7_Step]_vars

\* A thenable call through a member expression has been visited in a checkable
\* async function scope, and nothing was reported or recorded.
C7_Witness ==
  /\ Len(path) = 1
  /\ path[1].type \in FunctionTypes /\ path[1].async
  /\ visited.calleeType = "MemberExpression" /\ visited.tsType = "thenable"
  /\ Len(scopeInfo) = 1
  /\ scopeInfo[1] = ScopeRecord(TRUE)
  /\ reports = <<>>

\* ---------------------------------------------------------------- C9
\* The records the listeners push for the nodes of p, outermost first.
RECURSIVE ExpectedScopes(_)
ExpectedScopes(p) ==
  IF p = <<>> THEN <<>>
  ELSE LET n == Top(p)
           parent == IF Len(p) = 1 THEN NoNode ELSE p[Len(p) - 1] IN
       ExpectedScopes(Front(p)) \o
         (IF n.type \in FunctionTypes
          THEN <<[hasAsyncCheck |-> n.async,
                  noAwaitCalls |-> IF n.async THEN Rendered(n.own) ELSE <<>>]>>
          ELSE IF ArrowAwaitSelector(n, parent)
          THEN <<ScopeRecord(FALSE), ScopeRecord(FALSE)>>
          ELSE IF IsBoundary(n) THEN <<ScopeRecord(FALSE)>>
          ELSE <<>>)

\* C9: in a well-formed walk the chain of records is, at every moment, exactly
\* the records pushed for the open nodes, in the order they were entered (so
\* each exit finds its own node's record on top and never an empty chain),
\* and it is empty once the walk is over.
C9_StackMirrorsWalk ==
  /\ scopeInfo = ExpectedScopes(path)
  /\ (path # <<>> /\ IsScoped(Top(path))) => scopeInfo # <<>>
  /\ done => scopeInfo = <<>>

\* A walk that opened functions and reported a violation is over, and no
\* scope is active.
C9_Witness ==
  /\ done
  /\ scopeInfo = <<>>
  /\ nextId > MaxNodes
  /\ Len(reports) = 2

\* ---------------------------------------------------------------- C8
C8_Step ==
  (strays' = strays + 1)
    => scopeInfo = <<>> /\ scopeInfo' = <<>> /\ reports' = reports

\* C8: an exit listener called while no scope is active emits nothing (also
\* for an async function node) and leaves the chain empty; the walk goes on
\* with the chain mirroring the open nodes as if the call had not happened.
C8_StrayExitNoOp ==
  [](scopeInfo = ExpectedScopes(path)) /\ [][C8_Step]_vars

\* After a stray exit the walk went on, reported a violation and its
\* function, and ended with no scope active.
C8_Witness ==
  /\ strays = 1
  /\ done
  /\ scopeInfo = <<>>
  /\ Len(reports) = 2
  /\ reports[2].messageId = "noAwaitBeforeReturnPromise"

\* ---------------------------------------------------------------- C11
\* The step leaves a boundary node: the node is the last node of path.
BoundaryLeft == Len(path') = Len(path) - 1 /\ IsBoundary(Top(path))

C11_Empty ==
  \A i \in 1..Len(scopeInfo) :
    ~scopeInfo[i].hasAsyncCheck => scopeInfo[i].noAwaitCalls = <<>>

C11_Step == BoundaryLeft => reports' = reports

\* C11: leaving a boundary node emits no diagnostic, and in every reachable
\* state every record that is not checkable has an empty list of calls.
C11_BoundarySilent == []C11_Empty /\ [][C11_Step]_vars

\* async function f() { for await (const x of g()) ... } with the thenable
\* call g() just visited under the for-await: its record is not checkable and
\* holds nothing, and nothing has been reported.
C11_Witness ==
  /\ Len(path) = 2
  /\ path[1].type \in FunctionTypes /\ path[1].async
  /\ path[2].type = "ForOfStatement" /\ path[2].await
  /\ IsThenableIdentCall(visited)
  /\ Len(scopeInfo) = 2
  /\ ~scopeInfo[2].hasAsyncCheck /\ scopeInfo[2].noAwaitCalls = <<>>
  /\ reports = <<>>

\* ---------------------------------------------------------------- C12
\* The current scope is checkable.
Checkable == scopeInfo # <<>> /\ Top(scopeInfo).hasAsyncCheck

C12_Inv == Checkable <=> InAsyncFunction(path)

C12_Step ==
  /\ \A i \in 1..Len(scopeInfo) :
       i <= Len(scopeInfo')
         => scopeInfo'[i].hasAsyncCheck = scopeInfo[i].hasAsyncCheck
  /\ Entered(IsBoundary)
       => /\ Len(scopeInfo') > Len(scopeInfo)
          /\ \A i \in (Len(scopeInfo) + 1)..Len(scopeInfo') :
               ~scopeInfo'[i].hasAsyncCheck

\* C12: at every point of the walk the current scope is checkable exactly
\* when the innermost open node among function and boundary nodes is an async
\* function; every record pushed on entering a boundary node is not
\* checkable, and no step changes the hasAsyncCheck of a record that stays on
\* the chain.
C12_CheckableIffAsyncInnermost == []C12_Inv /\ [][C12_Step]_vars

\* The walk is in a return statement of an async function: the function's
\* record is checkable, the one on top of it is not.
C12_Witness ==
  /\ Len(path) = 2
  /\ path[1].type \in FunctionTypes /\ path[1].async
  /\ path[2].type = "ReturnStatement"
  /\ Len(scopeInfo) = 2
  /\ scopeInfo[1].hasAsyncCheck /\ ~scopeInfo[2].hasAsyncCheck
  /\ ~Checkable

\* ---------------------------------------------------------------- C13
C13_Step ==
  CallVisited
    => /\ Len(scopeInfo') = Len(scopeInfo)
       /\ \A i \in 1..(Len(scopeInfo) - 1) : scopeInfo'[i] = scopeInfo[i]
       /\ scopeInfo # <<>>
            => /\ Top(scopeInfo').hasAsyncCheck = Top(scopeInfo).hasAsyncCheck
               /\ Top(scopeInfo').noAwaitCalls =
                    IF reports' # reports
                    THEN Top(scopeInfo).noAwaitCalls \o Rendered(<<visited'>>)
                    ELSE Top(scopeInfo).noAwaitCalls
       /\ (IsThenableIdentCall(visited') /\ InAsyncFunction(path))
            => reports' # reports

\* C13: the visit of a call keeps the depth of the chain, the hasAsyncCheck
\* of the top record and every record below the top; when it records a
\* violation (it reports one) it appends exactly the one descriptor of the
\* call to the top record's list, and otherwise leaves that list alone.
C13_RecordsOnTopOnly == [][C13_Step]_vars

\* A thenable call through an identifier has just been visited in an async
\* function nested in an async function: the inner record lists it, the outer
\* record lists nothing.
C13_Witness ==
  /\ Len(path) = 2
  /\ path[1].type \in FunctionTypes /\ path[1].async
  /\ path[2].type \in FunctionTypes /\ path[2].async
  /\ IsThenableIdentCall(visited)
  /\ Len(scopeInfo) = 2
  /\ scopeInfo[1].noAwaitCalls = <<>>
  /\ scopeInfo[2].noAwaitCalls = Rendered(<<visited>>)

\* ---------------------------------------------------------------- C14
\* The diagnostics hold a summary of the function with the given id.
Summarised(rep, id) ==
  \E i \in 1..Len(rep) :
    rep[i].messageId = "noAwaitBeforeReturnPromise" /\ rep[i].node = id

\* No function the walk is still in has its summary yet.
C14_Open ==
  \A k \in 1..Len(path) :
    path[k].type \in FunctionTypes => ~Summarised(reports, path[k].id)

C14_Step ==
  /\ Len(reports') >= Len(reports)
  /\ \A i \in 1..Len(reports) : reports'[i] = reports[i]
  /\ (CallVisited /\ IsThenableIdentCall(visited') /\ InAsyncFunction(path))
       => /\ Len(reports') = Len(reports) + 1
          /\ reports'[Len(reports')] = AsyncCallNoAwait(visited')
          /\ ~Summarised(reports', path[Nearest(path)].id)
  /\ (FunctionLeft /\ Top(path).async /\ Top(path).own # <<>>)
       => \E j \in 1..Len(reports') :
            /\ reports'[j] = NoAwaitBeforeReturnPromise(Top(path))
            /\ \A k \in 1..Len(Top(path).own) :
                 \E i \in 1..(j - 1) :
                   reports'[i] = AsyncCallNoAwait(Top(path).own[k])
            /\ \A k \in 1..(Len(path) - 1) :
                 path[k].type \in FunctionTypes
                   => ~Summarised(reports', path[k].id)

C15_Step ==
  /\ (CallVisited /\ ~Checkable)
       => ~queried' /\ reports' = reports /\ scopeInfo' = scopeInfo
  /\ queried' => CallVisited /\ Checkable

\* C15: a step asks the type checker only when it visits a call while a
\* scope is active and the top record is checkable; the visit of a call with
\* no scope active or with a top record that is not checkable asks nothing,
\* emits nothing and leaves every record as it was.
C15_QueryOnlyWhenCheckable == [][C15_Step]_vars

\* A call with a TypeScript node of thenable type has just been visited under
\* an await of an async function: the type checker was not asked and nothing
\* was reported or recorded.
C15_Witness ==
  /\ Len(path) = 2
  /\ path[1].type \in FunctionTypes /\ path[1].async
  /\ path[2].type = "AwaitExpression"
  /\ visited # NoNode /\ visited.tsType = "thenable"
  /\ ~queried
  /\ reports = <<>>
  /\ \A i \in 1..Len(scopeInfo) : scopeInfo[i].noAwaitCalls = <<>>

\* ---------------------------------------------------------------- C16
\* The walk is inside a for-await statement with no function opened since.
InForAwait(p) ==
  \E k \in 1..Len(p) :
    /\ p[k].type = "ForOfStatement" /\ p[k].await
    /\ \A j \in (k + 1)..Len(p) : p[j].type \notin FunctionTypes

\* The walk is directly in a for-of statement without await that lies
\* directly in an async function.
InPlainForOfOfAsync(p) ==
  /\ Len(p) >= 2
  /\ p[Len(p)].type = "ForOfStatement" /\ ~p[Len(p)].await
  /\ p[Len(p) - 1].type \in FunctionTypes /\ p[Len(p) - 1].async

C16_Step ==
  /\ (CallVisited /\ InForAwait(path))
       => reports' = reports /\ scopeInfo' = scopeInfo
  /\ (CallVisited /\ IsThenableIdentCall(visited') /\ InPlainForOfOfAsync(path))
       => reports' = Append(reports, AsyncCallNoAwait(visited'))

\* C16: a call visited inside a for-await statement, with no function opened
\* between the statement and the call, is never flagged and never recorded;
\* a thenable call through an identifier visited in a for-of statement
\* without await of an async function is flagged.
C16_ForAwaitSilent == [][C16_Step]_vars

\* async function f() { for (const x of xs) { g(); } } with the thenable call
\* g() just visited: it is flagged.
C16_Witness ==
  /\ InPlainForOfOfAsync(path)
  /\ IsThenableIdentCall(visited)
  /\ reports = <<AsyncCallNoAwait(visited)>>

\* ---------------------------------------------------------------- C17
\* s is the sequence t cut after some element.
IsPrefix(s, t) == Len(s) <= Len(t) /\ SubSeq(t, 1, Len(s)) = s

C17_Step ==
  /\ Entered(IsBoundary)
       => IsPrefix(scopeInfo, scopeInfo') /\ scopeInfo' # scopeInfo
  /\ (Len(path') = Len(path) + 1) => IsPrefix(scopeInfo, scopeInfo')
  /\ (Len(path') = Len(path) - 1) => IsPrefix(scopeInfo', scopeInfo)
  /\ (CallVisited /\ path # <<>> /\ IsBoundary(Top(path)))
       => scopeInfo' = scopeInfo
  /\ BoundaryLeft
       => /\ IsPrefix(scopeInfo', scopeInfo) /\ scopeInfo' # scopeInfo
          /\ scopeInfo' = ExpectedScopes(path')
          /\ reports' = reports
  /\ (resumed /\ CallVisited /\ IsThenableIdentCall(visited')
        /\ path # <<>> /\ IsFunction(Top(path)) /\ Top(path).async)
       => /\ reports' = Append(reports, AsyncCallNoAwait(visited'))
          /\ Top(scopeInfo').noAwaitCalls =
               Top(scopeInfo).noAwaitCalls \o Rendered(<<visited'>>)
  /\ (resumed /\ FunctionLeft /\ Top(path).async /\ Top(path).own # <<>>)
       => reports' = Append(reports, NoAwaitBeforeReturnPromise(Top(path)))

\* C17: entering a boundary node only puts records on top of the chain, the
\* steps inside it leave the records below it as they were (an enter only
\* adds on top, an exit only takes from the top, a call in the boundary
\* changes nothing), and leaving it only takes its records off: the top
\* record is again the enclosing node's, with the hasAsyncCheck and the calls
\* it had.  A thenable call through an identifier that follows the boundary
\* in the same async function is flagged and recorded, and the function's
\* summary lists the function's calls.
C17_BoundaryRestores == [][C17_Step]_vars

\* The walk has left a boundary node of an async function and has then
\* visited a thenable call through an identifier in that function: the call
\* is flagged and the function's record lists it.
C17_Witness ==
  /\ resumed
  /\ Len(path) = 1
  /\ IsFunction(path[1]) /\ path[1].async
  /\ IsThenableIdentCall(visited)
  /\ reports = <<AsyncCallNoAwait(visited)>>
  /\ Len(scopeInfo) = 1
  /\ scopeInfo[1].hasAsyncCheck
  /\ scopeInfo[1].noAwaitCalls = Rendered(<<visited>>)

\* ---------------------------------------------------------------- C18
\* The number of asyncCallNoAwait diagnostics among the given ones.
RECURSIVE PerCall(_)
PerCall(rep) ==
  IF rep = <<>> THEN 0
  ELSE PerCall(Front(rep))
         + (IF Top(rep).messageId = "asyncCallNoAwait" THEN 1 ELSE 0)

\* The number of descriptors over the payloads of the summaries among the
\* given diagnostics.
RECURSIVE Listed(_)
Listed(rep) ==
  IF rep = <<>> THEN 0
  ELSE Listed(Front(rep))
         + (IF Top(rep).messageId = "noAwaitBeforeReturnPromise"
            THEN Len(Top(rep).noAwaitCalls) ELSE 0)

\* The number of descriptors the records of the chain hold.
RECURSIVE Pending(_)
Pending(si) ==
  IF si = <<>> THEN 0
  ELSE Pending(Front(si)) + Len(Top(si).noAwaitCalls)

\* C18: at the end of the walk the number of asyncCallNoAwait diagnostics
\* equals the number of descriptors over the payloads of all the
\* noAwaitBeforeReturnPromise diagnostics; during the walk the difference is
\* the number of descriptors held by the records of the open scopes.
C18_PerCallMatchesSummaries ==
  /\ PerCall(reports) = Listed(reports) + Pending(scopeInfo)
  /\ done => PerCall(reports) = Listed(reports)

\* The walk has ended with two asyncCallNoAwait diagnostics and one summary
\* listing two calls.
C18_Witness ==
  /\ done
  /\ PerCall(reports) = 2
  /\ Len(reports) = 3
  /\ Listed(reports) = 2

\* ---------------------------------------------------------------- C19
\* An await expression that is the direct body of an async arrow function.
IsArrowBodyAwait(n, parent) ==
  /\ n.type = "AwaitExpression" /\ n.direct
  /\ parent.type = "ArrowFunctionExpression" /\ parent.async

ParentIn(p) == IF Len(p) < 2 THEN NoNode ELSE p[Len(p) - 1]

\* The chain a rule with only the generic AwaitExpression listeners holds
\* where this rule holds si for the open nodes p: the same records without
\* the second record of each await that is the direct body of an async arrow.
RECURSIVE GenericOnlyScopes(_, _)
GenericOnlyScopes(si, p) ==
  IF p = <<>> \/ si = <<>> THEN si
  ELSE IF IsArrowBodyAwait(Top(p), ParentIn(p))
  THEN IF Len(si) < 2 THEN si
       ELSE Append(GenericOnlyScopes(SubSeq(si, 1, Len(si) - 2), Front(p)),
                   Top(si))
  ELSE IF IsScoped(Top(p))
  THEN Append(GenericOnlyScopes(Front(si), Front(p)), Top(si))
  ELSE GenericOnlyScopes(si, Front(p))

\* The rule with only the generic listeners, started in the state that
\* corresponds to this rule's, takes the step's listener call to the state
\* that corresponds to this rule's next state, with the same diagnostics.
C19_Simulates ==
  LET v == Rule(GenericOnlyScopes(scopeInfo, path), reports)
      w == IF CallVisited
           THEN OnEnter_GenericAwaitOnly(v, visited', Parent)
           ELSE IF Len(path') = Len(path) + 1
           THEN OnEnter_GenericAwaitOnly(v, Top(path'), Parent)
           ELSE IF Len(path') = Len(path) - 1
           THEN OnExit_GenericAwaitOnly(v, Top(path), ParentIn(path))
           ELSE v IN
  /\ w.reports = reports'
  /\ w.scopeInfo = GenericOnlyScopes(scopeInfo', path')

C19_Step ==
  /\ (Len(path') = Len(path) + 1 /\ IsArrowBodyAwait(Top(path'), Parent))
       => scopeInfo' = scopeInfo \o <<ScopeRecord(FALSE), ScopeRecord(FALSE)>>
  /\ (Len(path') = Len(path) - 1
        /\ IsArrowBodyAwait(Top(path), ParentIn(path)))
       => /\ Len(scopeInfo) >= 3
          /\ scopeInfo' = SubSeq(scopeInfo, 1, Len(scopeInfo) - 2)
          /\ Top(scopeInfo') =
               [hasAsyncCheck |-> TRUE,
                noAwaitCalls |-> Rendered(Top(path').own)]
  /\ (FunctionLeft /\ Top(path).type = "ArrowFunctionExpression")
       => /\ scopeInfo # <<>>
          /\ Top(scopeInfo).hasAsyncCheck = Top(path).async
          /\ scopeInfo' = Front(scopeInfo)
  /\ C19_Simulates

\* C19: entering an await expression that is the direct body of an async
\* arrow function pushes two records that are not checkable, leaving it pops
\* two and leaves the arrow's record on top, the exit of an arrow function
\* finds the arrow's record on top, and every step emits the diagnostics that
\* a rule with only the generic AwaitExpression listeners emits from the
\* corresponding state.
C19_DoubleAwaitHarmless == [][C19_Step]_vars

\* async () => await g() with the thenable call g() just visited: two records
\* that are not checkable lie on the arrow's record, and nothing is reported.
C19_Witness ==
  /\ Len(path) = 2
  /\ IsArrowBodyAwait(path[2], path[1])
  /\ IsThenableIdentCall(visited)
  /\ Len(scopeInfo) = 3
  /\ scopeInfo[1].hasAsyncCheck
  /\ ~scopeInfo[2].hasAsyncCheck /\ ~scopeInfo[3].hasAsyncCheck
  /\ reports = <<>>

\* ---------------------------------------------------------------- C20
IsAsyncArrow(n) == n.type = "ArrowFunctionExpression" /\ n.async

C20_Step ==
  /\ (Len(path') = Len(path) + 1 /\ ~IsFunction(Top(path')))
       => (scopeInfo' # scopeInfo
             <=> \/ Top(path').type \in {"AwaitExpression", "ReturnStatement"}
                 \/ (Top(path').type = "ForOfStatement" /\ Top(path').await))
  /\ CallVisited => Len(scopeInfo') = Len(scopeInfo)
  /\ (CallVisited /\ IsThenableIdentCall(visited')
        /\ path # <<>> /\ IsAsyncArrow(Top(path)))
       => /\ Top(scopeInfo).hasAsyncCheck
          /\ reports' = Append(reports, AsyncCallNoAwait(visited'))
  /\ (FunctionLeft /\ IsAsyncArrow(Top(path)) /\ Top(path).own # <<>>)
       => reports' = Append(reports, NoAwaitBeforeReturnPromise(Top(path)))
  /\ (CallVisited /\ path # <<>> /\ Top(path).type = "ReturnStatement")
       => reports' = reports

\* C20: among the nodes that are not functions, exactly the await
\* expressions, the return statements and the for-await statements put a
\* record on the chain when entered, and a call never does.  A thenable call
\* through an identifier visited directly in an async arrow function (its
\* expression body) finds the arrow's checkable record on top and is flagged,
\* and the arrow's exit emits its summary; the same call visited directly in
\* a return statement is not flagged.
C20_OnlyBoundariesSuppress == [][C20_Step]_vars

\* async () => g() with the thenable call g() just visited: it is flagged and
\* the arrow's record, checkable, lists it.
C20_Witness ==
  /\ Len(path) = 1
  /\ IsAsyncArrow(path[1])
  /\ IsThenableIdentCall(visited)
  /\ ~resumed
  /\ reports = <<AsyncCallNoAwait(visited)>>
  /\ scopeInfo =
       <<[hasAsyncCheck |-> TRUE, noAwaitCalls |-> Rendered(<<visited>>)]>>

====
